---- MODULE Spec2Model ----
(***************************************************************************)
(* Model of trading/edge.py: the scorer (calculate_p_win, calculate_ev)    *)
(* and the batch processor (calculate_ev_from_csv) with its command-line   *)
(* caller (main).                                                          *)
(*                                                                         *)
(* Python floats are binary floating-point numbers.  They are modelled as  *)
(* pairs <<m, e>> standing for m * 2^e, normalised to Precision mantissa   *)
(* bits, and every arithmetic operation rounds its exact result to the     *)
(* nearest such number, ties to even, as IEEE 754 does (with 53 bits in    *)
(* the program).                                                           *)
(***************************************************************************)
EXTENDS Integers, Sequences, FiniteSets, TLC

\* ------------------------------------------------------------------ bounds

\* Mantissa bits of the modelled floating-point numbers.
Precision == 9
\* Fraction bits of the fixed-point evaluation of exp before its result is rounded.
ExpFracBits == 15
\* Terms of the exponential series (its remainder is below the fixed-point step).
ExpTerms == 6
\* Largest buy_ratings / total_ratings of the scorer's input grid.
MaxBuy == 12
MaxTotal == 14
\* Largest number of data rows of an input table.
MaxRows == 2

\* ------------------------------------------------- floating-point numbers

Abs(n) == IF n < 0 THEN -n ELSE n

Sign(n) == IF n < 0 THEN -1 ELSE IF n > 0 THEN 1 ELSE 0

RECURSIVE Pow2(_)
Pow2(n) == IF n <= 0 THEN 1 ELSE 2 * Pow2(n - 1)

RECURSIVE BitLen(_)
BitLen(n) == IF n <= 0 THEN 0 ELSE 1 + BitLen(n \div 2)

\* n divided by 2^d, rounded to the nearest integer, ties to even (n >= 0, d >= 1).
ShiftRightEven(n, d) ==
    LET q == n \div Pow2(d)
        r == n % Pow2(d)
        h == Pow2(d - 1)
    IN  IF r > h \/ (r = h /\ q % 2 = 1) THEN q + 1 ELSE q

\* The floating-point number nearest to n * 2^e.
FlRound(n, e) ==
    LET a == Abs(n)
        k == BitLen(a)
    IN  IF n = 0 THEN <<0, 0>>
        ELSE IF k <= Precision
             THEN <<n * Pow2(Precision - k), e - (Precision - k)>>
             ELSE LET d == k - Precision
                      q == ShiftRightEven(a, d)
                  IN  IF q = Pow2(Precision)
                      THEN <<Sign(n) * (q \div 2), e + d + 1>>
                      ELSE <<Sign(n) * q, e + d>>

\* float(n) of an integer n.
FlInt(n) == FlRound(n, 0)

FlNeg(x) == <<-x[1], x[2]>>

\* x * y
FlMul(x, y) == FlRound(x[1] * y[1], x[2] + y[2])

\* x / y (y # 0): the quotient to Precision + 2 bits and a sticky bit, then rounded.
FlDiv(x, y) ==
    IF x[1] = 0 THEN <<0, 0>>
    ELSE LET sh == Precision + 2
             n  == Abs(x[1]) * Pow2(sh)
             q  == n \div Abs(y[1])
             r  == n % Abs(y[1])
             sg == Sign(x[1]) * Sign(y[1])
         IN  FlRound(sg * (2 * q + (IF r = 0 THEN 0 ELSE 1)), x[2] - y[2] - sh - 1)

\* x + y.  An operand below a quarter of the other's last mantissa bit does not
\* change the rounded sum.
FlAdd(x, y) ==
    IF x[1] = 0 THEN y
    ELSE IF y[1] = 0 THEN x
    ELSE IF x[2] - y[2] > Precision + 1 THEN x
    ELSE IF y[2] - x[2] > Precision + 1 THEN y
    ELSE LET e == IF x[2] < y[2] THEN x[2] ELSE y[2]
         IN  FlRound(x[1] * Pow2(x[2] - e) + y[1] * Pow2(y[2] - e), e)

\* x - y
FlSub(x, y) == FlAdd(x, FlNeg(y))

\* x < y (both normalised)
FlLt(x, y) ==
    IF x[1] = 0 \/ y[1] = 0 \/ Sign(x[1]) # Sign(y[1]) THEN x[1] < y[1]
    ELSE IF x[1] > 0
         THEN x[2] < y[2] \/ (x[2] = y[2] /\ x[1] < y[1])
         ELSE x[2] > y[2] \/ (x[2] = y[2] /\ x[1] < y[1])

\* x >= y
FlGe(x, y) == ~FlLt(x, y)

\* The decimal literal n/d (such as 0.25 or 7.5), correctly rounded.
FlDec(n, d) == FlDiv(FlInt(n), FlInt(d))

\* int(x): x truncated towards zero.
FlTrunc(x) ==
    IF x[2] >= 0 THEN x[1] * Pow2(x[2])
    ELSE Sign(x[1]) * (Abs(x[1]) \div Pow2(-x[2]))

\* Clip with the fault that the caps are not applied.
Clip_off(x, lo, hi) == x

\* np.clip(x, lo, hi)
Clip(x, lo, hi) == IF FlLt(x, lo) THEN lo ELSE IF FlLt(hi, x) THEN hi ELSE x

\* The k-th and later terms of the series of exp(xf / 2^ExpFracBits), in fixed
\* point, given the (k-1)-th term.
RECURSIVE ExpSeries(_, _, _)
ExpSeries(xf, term, k) ==
    IF k > ExpTerms THEN 0
    ELSE LET p  == term * xf
             dd == Pow2(ExpFracBits) * k
             t  == (p + dd \div 2) \div dd
         IN  t + ExpSeries(xf, t, k + 1)

\* ln 2 in fixed point with ExpFracBits fraction bits (ln 2 * 2^16 = 45426.09).
Ln2Fixed ==
    IF ExpFracBits >= 16 THEN 45426 * Pow2(ExpFracBits - 16)
    ELSE ShiftRightEven(45426, 16 - ExpFracBits)

\* np.exp(x): x = k * ln 2 + r with |r| <= (ln 2) / 2, exp(x) = 2^k * exp(r), the
\* series of exp(r) summed in fixed point and the result rounded to a float.
Exp(x) ==
    LET sh == x[2] + ExpFracBits
        xf == IF sh >= 0 THEN x[1] * Pow2(sh)
              ELSE IF -sh > Precision + 1 THEN 0
              ELSE Sign(x[1]) * ShiftRightEven(Abs(x[1]), -sh)
        k  == (2 * xf + Ln2Fixed) \div (2 * Ln2Fixed)
        r  == xf - k * Ln2Fixed
    IN  FlRound(Pow2(ExpFracBits) + ExpSeries(r, Pow2(ExpFracBits), 1), k - ExpFracBits)

\* ------------------------------------------------------------- the scorer

\* DEFAULT_WEIGHTS
DEFAULT_WEIGHTS ==
    [analysts_ratings      |-> FlDec(25, 100),
     smart_score           |-> FlDec(15, 100),
     net_options_sentiment |-> FlDec(20, 100),
     net_social_sentiment  |-> FlDec(20, 100),
     upside_breakout       |-> FlDec(20, 100)]

\* analysts_delta with the fault that the buy proportion is measured from 0.5.
analysts_delta_centred(buy_ratings, total_ratings) ==
    LET raw == IF total_ratings > 0
               THEN LET buy_proportion == FlDiv(FlInt(buy_ratings), FlInt(total_ratings))
                    IN  FlMul(FlMul(FlSub(buy_proportion, FlDec(1, 2)),
                                    FlDiv(FlInt(total_ratings), FlInt(20))),
                              FlInt(30))
               ELSE <<0, 0>>
    IN  IF FlLt(raw, FlInt(-30)) THEN FlInt(-30)
        ELSE IF FlLt(FlInt(30), raw) THEN FlInt(30) ELSE raw

\* analysts_delta with the fault that no ratings count as the most negative signal.
analysts_delta_negative(buy_ratings, total_ratings) ==
    LET raw == IF total_ratings > 0
               THEN LET buy_proportion == FlDiv(FlInt(buy_ratings), FlInt(total_ratings))
                    IN  FlMul(FlMul(buy_proportion,
                                    FlDiv(FlInt(total_ratings), FlInt(20))),
                              FlInt(30))
               ELSE FlInt(-30)
    IN  IF FlLt(raw, FlInt(-30)) THEN FlInt(-30)
        ELSE IF FlLt(FlInt(30), raw) THEN FlInt(30) ELSE raw

\* analysts_delta of calculate_p_win: buy_ratings and total_ratings are ints.
analysts_delta(buy_ratings, total_ratings) ==
    LET raw == IF total_ratings > 0
               THEN LET buy_proportion == FlDiv(FlInt(buy_ratings), FlInt(total_ratings))
                    IN  FlMul(FlMul(buy_proportion,
                                    FlDiv(FlInt(total_ratings), FlInt(20))),
                              FlInt(30))
               ELSE <<0, 0>>
    IN  Clip(raw, FlInt(-30), FlInt(30))

\* smart_delta of calculate_p_win
smart_delta(smart_score) ==
    Clip(FlMul(FlDiv(FlSub(smart_score, FlInt(5)), FlInt(5)), FlInt(20)),
         FlInt(-20), FlInt(20))

\* options_delta, social_delta and breakout_delta of calculate_p_win share one formula.
sentiment_delta(score) ==
    Clip(FlMul(FlDiv(FlSub(score, FlInt(50)), FlInt(50)), FlInt(20)),
         FlInt(-20), FlInt(20))

\* The five deltas of a signal, in the order of the weighted sum.
deltas_of(sg) ==
    [analysts |-> analysts_delta(sg.buy_ratings, sg.total_ratings),
     smart    |-> smart_delta(sg.smart_score),
     options  |-> sentiment_delta(sg.net_options_sentiment),
     social   |-> sentiment_delta(sg.net_social_sentiment),
     breakout |-> sentiment_delta(sg.upside_breakout)]

\* total_delta of calculate_p_win: the weighted sum, added left to right.
total_delta(d, weights) ==
    FlAdd(FlAdd(FlAdd(FlAdd(FlMul(d.analysts, weights.analysts_ratings),
                            FlMul(d.smart, weights.smart_score)),
                      FlMul(d.options, weights.net_options_sentiment)),
                FlMul(d.social, weights.net_social_sentiment)),
          FlMul(d.breakout, weights.upside_breakout))

\* p_win = 1 / (1 + e^(-z)), z = total_delta / 100
sigmoid_of_delta(td) ==
    LET z == FlDiv(td, FlInt(100))
    IN  FlDiv(FlInt(1), FlAdd(FlInt(1), Exp(FlNeg(z))))

\* calculate_p_win(buy_ratings, ..., upside_breakout, weights)
calculate_p_win(sg, weights) == sigmoid_of_delta(total_delta(deltas_of(sg), weights))

\* calculate_ev(p_win, win_r, loss_r)
calculate_ev(p, win_r, loss_r) ==
    FlAdd(FlMul(p, win_r), FlMul(FlSub(FlInt(1), p), loss_r))

\* ------------------------------------------------------------------ state

VARIABLES
    \* one call of calculate_p_win (and a second one, to compare it with)
    sig,          \* the signal inputs of the call
    alt,          \* the signal inputs of the second call
    spc,          \* "call" before the calls, "done" after, "off" when unused
    locals,       \* the deltas and total_delta of the call on sig
    ret,          \* the p_win returned for sig
    alt_ret,      \* the p_win returned for alt
    \* one call of calculate_ev_from_csv, from main or from a library user
    csv_columns,  \* header of the file at csv_path
    csv_rows,     \* its data rows: functions from column name to cell
    output_path,  \* TRUE when an output path is given
    caller,       \* "main" or "library"
    pc,           \* position in calculate_ev_from_csv / main
    df_columns,   \* df.columns
    df_rows,      \* the rows of df
    acc,          \* the values df.apply has produced so far
    scored,       \* number of calculate_p_win calls made for rows
    out_file,     \* the table written to output_path, or NoTable
    stdout,       \* what was printed: <<printer, message>> in order
    stderr,       \* what main wrote to standard error
    error,        \* the exception raised by calculate_ev_from_csv, or NoError
    result        \* the DataFrame returned, or NoTable

scorer_vars == <<sig, alt, spc, locals, ret, alt_ret>>

batch_vars == <<csv_columns, csv_rows, output_path, caller, pc, df_columns, df_rows,
                acc, scored, out_file, stdout, stderr, error, result>>

vars == <<sig, alt, spc, locals, ret, alt_ret,
          csv_columns, csv_rows, output_path, caller, pc, df_columns, df_rows,
          acc, scored, out_file, stdout, stderr, error, result>>

NoTable == [columns |-> <<>>, rows |-> <<>>, present |-> FALSE]

NoError == [raised |-> FALSE]

NoLocals == [computed |-> FALSE]

\* ------------------------------------------------- calls of the scorer

Signal(b, t, s, o, c, u) ==
    [buy_ratings |-> b, total_ratings |-> t, smart_score |-> FlInt(s),
     net_options_sentiment |-> FlInt(o), net_social_sentiment |-> FlInt(c),
     upside_breakout |-> FlInt(u)]

\* The input the neutral-input property names: half of 20 ratings are buys, every
\* other signal at its midpoint.
NeutralSignal == Signal(10, 20, 5, 50, 50, 50)

\* Inputs of the test suite (test_edge.py) with total_ratings beyond the grid.
NamedSignals ==
    {NeutralSignal,
     Signal(8, 16, 5, 50, 50, 50),
     Signal(15, 16, 8, 89, 82, 89),
     Signal(2, 16, 2, 20, 20, 20),
     Signal(20, 20, 10, 100, 100, 100),
     Signal(0, 20, 0, 0, 0, 0)}

\* Signals within their intended ranges: <<smart_score, options, social, breakout>>.
InRangeProfiles ==
    {<<5, 50, 50, 50>>, <<8, 89, 82, 89>>, <<2, 20, 20, 20>>, <<6, 45, 50, 55>>}

\* buy_ratings <= total_ratings, or no ratings at all (total_ratings = 0).
RatingPairs == {r \in (0..MaxBuy) \X (0..MaxTotal) : r[2] = 0 \/ r[1] <= r[2]}

GridSignals ==
    {Signal(r[1], r[2], q[1], q[2], q[3], q[4]) : r \in RatingPairs, q \in InRangeProfiles}

\* Inputs far outside the intended ranges.
ExtremeSignals ==
    {Signal(r[1], r[2], q[1], q[2], q[3], q[4]) :
        r \in {<<400, 500>>, <<500, 1>>, <<0, 500>>, <<500, 0>>},
        q \in {<<4096, 4096, 4096, 4096>>, <<-4096, -4096, -4096, -4096>>,
               <<4096, -4096, 50, 4096>>, <<15, 300, -20, 150>>}}

ScorerInputs == GridSignals \cup NamedSignals \cup ExtremeSignals

\* Larger values a single field is raised to.
RaisedScores == {3, 8, 15}

RaisedSentiments == {30, 89, 150}

\* The signals that differ from sg in exactly one field, which is larger.
Raised(sg) ==
    {[sg EXCEPT !.buy_ratings = b] :
        b \in {x \in (sg.buy_ratings + 1)..MaxBuy :
                   sg.total_ratings = 0 \/ x <= sg.total_ratings}}
    \cup {[sg EXCEPT !.total_ratings = t] :
        t \in {x \in (sg.total_ratings + 1)..MaxTotal : x >= sg.buy_ratings}}
    \cup {[sg EXCEPT !.smart_score = FlInt(v)] :
        v \in {x \in RaisedScores : FlLt(sg.smart_score, FlInt(x))}}
    \cup {[sg EXCEPT !.net_options_sentiment = FlInt(v)] :
        v \in {x \in RaisedSentiments : FlLt(sg.net_options_sentiment, FlInt(x))}}
    \cup {[sg EXCEPT !.net_social_sentiment = FlInt(v)] :
        v \in {x \in RaisedSentiments : FlLt(sg.net_social_sentiment, FlInt(x))}}
    \cup {[sg EXCEPT !.upside_breakout = FlInt(v)] :
        v \in {x \in RaisedSentiments : FlLt(sg.upside_breakout, FlInt(x))}}

\* The batch processor's variables while only the scorer is exercised.
BatchOff ==
    /\ csv_columns = <<>>
    /\ csv_rows = <<>>
    /\ output_path = FALSE
    /\ caller = "library"
    /\ pc = "off"
    /\ df_columns = <<>>
    /\ df_rows = <<>>
    /\ acc = <<>>
    /\ scored = 0
    /\ out_file = NoTable
    /\ stdout = <<>>
    /\ stderr = <<>>
    /\ error = NoError
    /\ result = NoTable

\* The scorer's variables while only the batch processor is exercised.
ScorerOff ==
    /\ sig = NeutralSignal
    /\ alt = NeutralSignal
    /\ spc = "off"
    /\ locals = NoLocals
    /\ ret = <<0, 0>>
    /\ alt_ret = <<0, 0>>

InitScorer ==
    /\ sig \in ScorerInputs
    /\ alt \in {sig} \cup (IF sig \in GridSignals THEN Raised(sig) ELSE {})
    /\ spc = "call"
    /\ locals = NoLocals
    /\ ret = <<0, 0>>
    /\ alt_ret = <<0, 0>>
    /\ BatchOff

\* calculate_p_win(sig) and calculate_p_win(alt), both with the default weights.
CalculatePWin ==
    /\ spc = "call"
    /\ locals' = [computed    |-> TRUE,
                  deltas      |-> deltas_of(sig),
                  total_delta |-> total_delta(deltas_of(sig), DEFAULT_WEIGHTS)]
    /\ ret' = calculate_p_win(sig, DEFAULT_WEIGHTS)
    /\ alt_ret' = calculate_p_win(alt, DEFAULT_WEIGHTS)
    /\ spc' = "done"
    /\ UNCHANGED <<sig, alt>>
    /\ UNCHANGED batch_vars

NextScorer == CalculatePWin

SpecScorer == InitScorer /\ [][NextScorer]_vars

\* ------------------------------------------------- the batch processor

\* A numeric cell and a text cell of a table.
Num(x) == [num |-> x]

Str(t) == [str |-> t]

\* The cell pd.read_csv yields for an empty field, and every float that is not a
\* number: float("nan").
NaN == [nan |-> TRUE]

IsNum(cell) == "num" \in DOMAIN cell

IsNaN(cell) == "nan" \in DOMAIN cell

Range(q) == {q[i] : i \in 1..Len(q)}

\* required_cols, in the order the validation loop visits them.
required_cols ==
    <<"buy_ratings", "total_ratings", "smart_score", "net_options_sentiment",
      "net_social_sentiment", "upside_breakout", "win_r", "loss_r">>

derived_cols == <<"p_win", "ev", "recommendation">>

\* Headers of the input files: complete, with extra columns around the required
\* ones, in another order, with an extra column named like a derived one, and
\* with required columns absent.
Headers ==
    {required_cols,
     <<"ticker">> \o required_cols \o <<"note">>,
     <<"loss_r", "win_r", "upside_breakout", "net_social_sentiment", "ticker",
       "net_options_sentiment", "smart_score", "total_ratings", "buy_ratings">>,
     <<"ev">> \o required_cols,
     SubSeq(required_cols, 1, 7),
     <<"buy_ratings", "total_ratings", "ticker", "net_options_sentiment",
       "net_social_sentiment", "upside_breakout", "loss_r">>}

AllColumns == UNION {Range(h) : h \in Headers}

\* The cells of one line of a file, for every column a header may hold.
Line(b, t, s, o, c, u, w, l) ==
    [col \in AllColumns |->
        CASE col = "buy_ratings"           -> b
          [] col = "total_ratings"         -> t
          [] col = "smart_score"           -> s
          [] col = "net_options_sentiment" -> o
          [] col = "net_social_sentiment"  -> c
          [] col = "upside_breakout"       -> u
          [] col = "win_r"                 -> w
          [] col = "loss_r"                -> l
          [] col = "ev"                    -> Num(FlInt(7))
          [] col = "ticker"                -> Str("ACME")
          [] OTHER                         -> Str("memo")]

I(n) == Num(FlInt(n))

D(n, d) == Num(FlDec(n, d))

\* Lines of the test suite's files, a line whose ev is exactly the threshold,
\* lines with a cell whose text is no number, and lines with an empty field.
Lines ==
    {Line(I(15), I(16), I(8), I(89), I(82), I(89), D(225, 100), D(-105, 100)),
     Line(I(2), I(16), I(2), I(20), I(20), I(20), D(15, 10), I(-1)),
     Line(I(0), I(0), I(5), I(50), I(50), I(50), D(6, 10), I(0)),
     Line(I(12), I(15), Str("abc"), I(75), I(70), I(80), I(2), I(-1)),
     Line(I(8), I(20), I(6), I(45), I(50), I(55), D(28, 10), Str("abc")),
     Line(NaN, I(16), I(8), I(89), I(82), I(89), D(225, 100), D(-105, 100)),
     Line(I(15), I(16), NaN, I(89), I(82), I(89), D(225, 100), D(-105, 100))}

RECURSIVE SeqsUpTo(_, _)
SeqsUpTo(S, n) ==
    IF n = 0 THEN {<<>>}
    ELSE LET shorter == SeqsUpTo(S, n - 1)
         IN  shorter \cup {Append(q, x) : q \in {r \in shorter : Len(r) = n - 1}, x \in S}

\* The rows pd.read_csv yields for a header and lines: one cell per column.
ReadRows(header, lines) ==
    [i \in 1..Len(lines) |-> [col \in Range(header) |-> lines[i][col]]]

InitBatch ==
    /\ csv_columns \in Headers
    /\ \E lines \in SeqsUpTo(Lines, MaxRows) : csv_rows = ReadRows(csv_columns, lines)
    /\ output_path \in BOOLEAN
    /\ caller \in {"main", "library"}
    /\ pc = "start"
    /\ df_columns = <<>>
    /\ df_rows = <<>>
    /\ acc = <<>>
    /\ scored = 0
    /\ out_file = NoTable
    /\ stdout = <<>>
    /\ stderr = <<>>
    /\ error = NoError
    /\ result = NoTable
    /\ ScorerOff

\* The validation loop from its i-th required column on: the ValueError it
\* raises for the first one absent from the columns, or NoError.
RECURSIVE validate_from(_, _)
validate_from(columns, i) ==
    IF i > Len(required_cols) THEN NoError
    ELSE IF required_cols[i] \notin Range(columns)
         THEN [raised |-> TRUE, type |-> "ValueError",
               text |-> "Required column not found in CSV", column |-> required_cols[i]]
         ELSE validate_from(columns, i + 1)

\* validate_columns with the fault that the error names the last required column
\* whatever column is absent.
validate_columns_last(columns) ==
    IF validate_from(columns, 1).raised
    THEN [validate_from(columns, 1) EXCEPT !.column = required_cols[Len(required_cols)]]
    ELSE NoError

validate_columns(columns) == validate_from(columns, 1)

\* The ValueError of int(cell) or float(cell) on a cell that is no number.
coercion_error(column) ==
    [raised |-> TRUE, type |-> "ValueError",
     text |-> "could not convert cell", column |-> column]

\* df[name] = values: a new column goes last, an existing one is overwritten in place.
assign_columns(columns, name) ==
    IF name \in Range(columns) THEN columns ELSE Append(columns, name)

assign_rows(rows, name, values) ==
    [i \in 1..Len(rows) |->
        [col \in DOMAIN rows[i] \cup {name} |->
            IF col = name THEN values[i] ELSE rows[i][col]]]

\* apply_index with the fault that the rows are visited last to first.
apply_index_reversed(done) == Len(df_rows) - Len(done)

\* The index of the row the next call of the applied function receives.
apply_index(done) == Len(done) + 1

\* The arguments the first lambda passes to calculate_p_win for a row.
row_signal(row) ==
    [buy_ratings           |-> FlTrunc(row["buy_ratings"].num),
     total_ratings         |-> FlTrunc(row["total_ratings"].num),
     smart_score           |-> row["smart_score"].num,
     net_options_sentiment |-> row["net_options_sentiment"].num,
     net_social_sentiment  |-> row["net_social_sentiment"].num,
     upside_breakout       |-> row["upside_breakout"].num]

signal_cols == SubSeq(required_cols, 1, 6)

ev_cols == <<"p_win", "win_r", "loss_r">>

\* The columns whose cells the first lambda passes through int().
rating_cols == SubSeq(required_cols, 1, 2)

\* Whether int(cell), for a rating column, or float(cell), for any other, returns:
\* both raise ValueError on a text that is no number, int() raises it on NaN too,
\* float() returns NaN.
coerces(cell, col) ==
    IF col \in Range(rating_cols) THEN IsNum(cell) ELSE IsNum(cell) \/ IsNaN(cell)

\* The first of the columns whose cell in the row does not coerce, or "" when all do.
RECURSIVE first_bad(_, _, _)
first_bad(row, cols, i) ==
    IF i > Len(cols) THEN ""
    ELSE IF ~coerces(row[cols[i]], cols[i]) THEN cols[i]
    ELSE first_bad(row, cols, i + 1)

\* recommendation_of with the fault that the threshold itself is excluded.
recommendation_of_strict(x) == IF FlLt(FlDec(3, 10), x) THEN "take_trade" ELSE "skip_trade"

\* "take_trade" if x >= 0.3 else "skip_trade"
recommendation_of(x) == IF FlGe(x, FlDec(3, 10)) THEN "take_trade" ELSE "skip_trade"

\* The value the first lambda returns for a row whose cells coerce: NaN in any of
\* the four float signals reaches every sum and the sigmoid, and p_win is NaN.
p_win_cell(row) ==
    IF \E col \in Range(signal_cols) : IsNaN(row[col]) THEN NaN
    ELSE Num(calculate_p_win(row_signal(row), DEFAULT_WEIGHTS))

\* The value the second lambda returns for a row whose cells coerce.
ev_cell(row) ==
    IF \E col \in Range(ev_cols) : IsNaN(row[col]) THEN NaN
    ELSE Num(calculate_ev(row["p_win"].num, row["win_r"].num, row["loss_r"].num))

\* The value the third lambda returns for an ev: NaN >= 0.3 is False.
recommendation_cell(cell) ==
    IF IsNaN(cell) THEN Str("skip_trade") ELSE Str(recommendation_of(cell.num))

DataFrame(columns, rows) == [columns |-> columns, rows |-> rows, present |-> TRUE]

\* Raise with the fault that a coercion error is caught where the rows are scored
\* and the table is saved and returned as it stands.
Raise_caught(e) ==
    IF e.text = "could not convert cell"
    THEN /\ error' = NoError
         /\ pc' = "save"
    ELSE /\ error' = e
         /\ pc' = "raised"

\* An exception leaves calculate_ev_from_csv: nothing in it catches one.
Raise(e) ==
    /\ error' = e
    /\ pc' = "raised"

\* df = pd.read_csv(csv_path)
ReadCsv ==
    /\ pc = "start"
    /\ df_columns' = csv_columns
    /\ df_rows' = csv_rows
    /\ pc' = "validate"
    /\ UNCHANGED <<csv_columns, csv_rows, output_path, caller, acc, scored, out_file,
                   stdout, stderr, error, result>>
    /\ UNCHANGED scorer_vars

\* for col in required_cols: if col not in df.columns: raise ValueError(...)
ValidateColumns ==
    /\ pc = "validate"
    /\ IF validate_columns(df_columns).raised
       THEN Raise(validate_columns(df_columns))
       ELSE /\ pc' = IF Len(df_rows) = 0 THEN "empty" ELSE "apply_p_win"
            /\ error' = error
    /\ UNCHANGED <<csv_columns, csv_rows, output_path, caller, df_columns, df_rows, acc,
                   scored, out_file, stdout, stderr, result>>
    /\ UNCHANGED scorer_vars

\* with_derived with the fault that the empty table is returned as read.
with_derived_none(columns) == columns

\* The columns of df after the three derived columns are assigned in order.
with_derived(columns) ==
    assign_columns(assign_columns(assign_columns(columns, "p_win"), "ev"),
                   "recommendation")

\* if len(df) == 0: the three empty columns, the optional save, return df
HandleEmpty ==
    /\ pc = "empty"
    /\ df_columns' = with_derived(df_columns)
    /\ IF output_path
       THEN /\ out_file' = DataFrame(df_columns', df_rows)
            /\ stdout' = Append(stdout, <<"calculate_ev_from_csv", "Results saved to">>)
       ELSE UNCHANGED <<out_file, stdout>>
    /\ result' = DataFrame(df_columns', df_rows)
    /\ pc' = "returned"
    /\ UNCHANGED <<csv_columns, csv_rows, output_path, caller, df_rows, acc, scored,
                   stderr, error>>
    /\ UNCHANGED scorer_vars

\* One call of the first lambda by df.apply(..., axis=1).
ApplyPWinRow ==
    /\ pc = "apply_p_win"
    /\ Len(acc) < Len(df_rows)
    /\ LET row == df_rows[apply_index(acc)]
           bad == first_bad(row, signal_cols, 1)
       IN  IF bad # ""
           THEN /\ Raise(coercion_error(bad))
                /\ UNCHANGED <<acc, scored>>
           ELSE /\ acc' = Append(acc, p_win_cell(row))
                /\ scored' = scored + 1
                /\ UNCHANGED <<pc, error>>
    /\ UNCHANGED <<csv_columns, csv_rows, output_path, caller, df_columns, df_rows,
                   out_file, stdout, stderr, result>>
    /\ UNCHANGED scorer_vars

\* df["p_win"] = the values df.apply returned
AssignPWin ==
    /\ pc = "apply_p_win"
    /\ Len(acc) = Len(df_rows)
    /\ df_columns' = assign_columns(df_columns, "p_win")
    /\ df_rows' = assign_rows(df_rows, "p_win", acc)
    /\ acc' = <<>>
    /\ pc' = "apply_ev"
    /\ UNCHANGED <<csv_columns, csv_rows, output_path, caller, scored, out_file, stdout,
                   stderr, error, result>>
    /\ UNCHANGED scorer_vars

\* One call of the second lambda by df.apply(..., axis=1).
ApplyEVRow ==
    /\ pc = "apply_ev"
    /\ Len(acc) < Len(df_rows)
    /\ LET row == df_rows[apply_index(acc)]
           bad == first_bad(row, ev_cols, 1)
       IN  IF bad # ""
           THEN /\ Raise(coercion_error(bad))
                /\ UNCHANGED acc
           ELSE /\ acc' = Append(acc, ev_cell(row))
                /\ UNCHANGED <<pc, error>>
    /\ UNCHANGED <<csv_columns, csv_rows, output_path, caller, df_columns, df_rows,
                   scored, out_file, stdout, stderr, result>>
    /\ UNCHANGED scorer_vars

\* df["ev"] = the values df.apply returned
AssignEV ==
    /\ pc = "apply_ev"
    /\ Len(acc) = Len(df_rows)
    /\ df_columns' = assign_columns(df_columns, "ev")
    /\ df_rows' = assign_rows(df_rows, "ev", acc)
    /\ acc' = <<>>
    /\ pc' = "apply_recommendation"
    /\ UNCHANGED <<csv_columns, csv_rows, output_path, caller, scored, out_file, stdout,
                   stderr, error, result>>
    /\ UNCHANGED scorer_vars

\* One call of the third lambda by df["ev"].apply.
ApplyRecommendationRow ==
    /\ pc = "apply_recommendation"
    /\ Len(acc) < Len(df_rows)
    /\ acc' = Append(acc, recommendation_cell(df_rows[apply_index(acc)]["ev"]))
    /\ UNCHANGED <<csv_columns, csv_rows, output_path, caller, pc, df_columns, df_rows,
                   scored, out_file, stdout, stderr, error, result>>
    /\ UNCHANGED scorer_vars

\* df["recommendation"] = the values the apply returned
AssignRecommendation ==
    /\ pc = "apply_recommendation"
    /\ Len(acc) = Len(df_rows)
    /\ df_columns' = assign_columns(df_columns, "recommendation")
    /\ df_rows' = assign_rows(df_rows, "recommendation", acc)
    /\ acc' = <<>>
    /\ pc' = "save"
    /\ UNCHANGED <<csv_columns, csv_rows, output_path, caller, scored, out_file, stdout,
                   stderr, error, result>>
    /\ UNCHANGED scorer_vars

\* if output_path: df.to_csv(output_path); print(...)   then   return df
SaveAndReturn ==
    /\ pc = "save"
    /\ IF output_path
       THEN /\ out_file' = DataFrame(df_columns, df_rows)
            /\ stdout' = Append(stdout, <<"calculate_ev_from_csv", "Results saved to">>)
       ELSE UNCHANGED <<out_file, stdout>>
    /\ result' = DataFrame(df_columns, df_rows)
    /\ pc' = "returned"
    /\ UNCHANGED <<csv_columns, csv_rows, output_path, caller, df_columns, df_rows, acc,
                   scored, stderr, error>>
    /\ UNCHANGED scorer_vars

\* main after calculate_ev_from_csv returned: the table and the summary are printed.
MainReport ==
    /\ pc = "returned"
    /\ caller = "main"
    /\ stdout' = stdout \o <<<<"main", "Expected Value Results">>,
                             <<"main", "table">>,
                             <<"main", "summary">>>>
    /\ pc' = "exit_0"
    /\ UNCHANGED <<csv_columns, csv_rows, output_path, caller, df_columns, df_rows, acc,
                   scored, out_file, stderr, error, result>>
    /\ UNCHANGED scorer_vars

\* main's except branch: parser.error(str(e)) writes usage and message to standard
\* error and exits with status 2.
MainError ==
    /\ pc = "raised"
    /\ caller = "main"
    /\ stderr' = Append(stderr, <<"main", error.text, error.column>>)
    /\ pc' = "exit_2"
    /\ UNCHANGED <<csv_columns, csv_rows, output_path, caller, df_columns, df_rows, acc,
                   scored, out_file, stdout, error, result>>
    /\ UNCHANGED scorer_vars

Next ==
    \/ ReadCsv
    \/ ValidateColumns
    \/ HandleEmpty
    \/ ApplyPWinRow
    \/ AssignPWin
    \/ ApplyEVRow
    \/ AssignEV
    \/ ApplyRecommendationRow
    \/ AssignRecommendation
    \/ SaveAndReturn
    \/ MainReport
    \/ MainError

Init == InitBatch

Spec == Init /\ [][Next]_vars

\* ------------------------------------------------------------ properties

Zero == <<0, 0>>

Half == FlDec(1, 2)

One == FlInt(1)

Threshold == FlDec(3, 10)

FlLe(x, y) == ~FlLt(y, x)

Between(x, lo, hi) == FlLe(lo, x) /\ FlLe(x, hi)

RequiredSet == Range(required_cols)

FullHeader == RequiredSet \subseteq Range(csv_columns)

Finished == pc \in {"returned", "raised", "exit_0", "exit_2"}

\* C1 as stated: on the all-neutral input (buy_ratings = 10, total_ratings = 20,
\* smart_score = 5, the three sentiments 50) every one of the five deltas is 0, the
\* weighted total delta is 0 and the returned p_win is exactly 0.5.
C1_NeutralIsExactlyHalf ==
    spc = "done" /\ sig = NeutralSignal =>
        /\ locals.deltas.analysts = Zero
        /\ locals.deltas.smart = Zero
        /\ locals.deltas.options = Zero
        /\ locals.deltas.social = Zero
        /\ locals.deltas.breakout = Zero
        /\ locals.total_delta = Zero
        /\ ret = Half

\* C1 amended: on the all-neutral input the four deltas other than the analysts'
\* are 0 and the analysts delta is 15 (0.5 * (20 / 20) * 30), so the weighted total
\* delta is 3.75 and the returned p_win lies strictly above 0.5 and within 0.1 of it.
C1_NeutralIsNearHalf ==
    spc = "done" /\ sig = NeutralSignal =>
        /\ locals.deltas.analysts = FlInt(15)
        /\ locals.deltas.smart = Zero
        /\ locals.deltas.options = Zero
        /\ locals.deltas.social = Zero
        /\ locals.deltas.breakout = Zero
        /\ locals.total_delta = FlDec(375, 100)
        /\ FlLt(Half, ret)
        /\ FlLt(ret, FlDec(6, 10))

C1_NeutralScored == spc = "done" /\ sig = NeutralSignal /\ FlLt(Half, ret)

C6_Monotone == spc = "done" => FlGe(alt_ret, ret)

\* What does hold of the grid: raising any field other than total_ratings never
\* lowers p_win.  For a fixed buy_ratings the exact analysts delta does not depend
\* on total_ratings, and only the rounding of buy_ratings / total_ratings and of
\* total_ratings / 20 makes the computed one move.
MonotoneButTotalRatings ==
    spc = "done" /\ alt.total_ratings = sig.total_ratings => FlGe(alt_ret, ret)

\* The weighted sum of the four deltas other than the analysts'.
four_signal_delta(d, weights) ==
    FlAdd(FlAdd(FlAdd(FlMul(d.smart, weights.smart_score),
                      FlMul(d.options, weights.net_options_sentiment)),
                FlMul(d.social, weights.net_social_sentiment)),
          FlMul(d.breakout, weights.upside_breakout))

FourNeutral(sg) ==
    /\ sg.smart_score = FlInt(5)
    /\ sg.net_options_sentiment = FlInt(50)
    /\ sg.net_social_sentiment = FlInt(50)
    /\ sg.upside_breakout = FlInt(50)

\* C7: with total_ratings = 0 the analysts delta is exactly 0 whatever buy_ratings
\* is, the call returns, and its p_win is the one the other four signals alone
\* produce: exactly 0.5 when those four are at their midpoints.
C7_ZeroRatingsNeutral ==
    spc = "done" /\ sig.total_ratings = 0 =>
        /\ locals.deltas.analysts = Zero
        /\ ret = sigmoid_of_delta(four_signal_delta(locals.deltas, DEFAULT_WEIGHTS))
        /\ (FourNeutral(sig) => ret = Half)

C7_ZeroRatingsScored ==
    /\ spc = "done"
    /\ sig.total_ratings = 0
    /\ sig.buy_ratings > 0
    /\ FourNeutral(sig)
    /\ ret = Half

\* C2 as stated: nothing calculate_ev_from_csv does writes to standard output; every
\* line on it was printed by main.
C2_OnlyMainPrints == \A i \in 1..Len(stdout) : stdout[i][1] = "main"

\* C3: when a required column is absent from the header, no row is ever scored and
\* nothing is written or returned, and once validation has run the call has failed
\* with "Required column ... not found" naming a required column that is absent.
C3_MissingColumnFailsFirst ==
    ~FullHeader =>
        /\ scored = 0
        /\ ~out_file.present
        /\ ~result.present
        /\ pc \notin {"start", "validate"} =>
              /\ pc \in {"raised", "exit_2"}
              /\ error.raised
              /\ error.text = "Required column not found in CSV"
              /\ error.column \in RequiredSet
              /\ error.column \notin Range(csv_columns)

C3_MissingColumnRaised ==
    /\ pc = "raised"
    /\ error.raised
    /\ error.column = "smart_score"
    /\ "loss_r" \in Range(csv_columns)
    /\ Len(csv_rows) = 2
    /\ output_path

\* C4: in every returned table each row's recommendation is "take_trade" exactly
\* when its ev is >= 0.3 and "skip_trade" otherwise (an ev that is NaN is not
\* >= 0.3); an ev equal to 0.3 is "take_trade".
C4_ThresholdClassification ==
    result.present =>
        \A i \in 1..Len(result.rows) :
            LET row == result.rows[i]
            IN  /\ row["recommendation"] \in {Str("take_trade"), Str("skip_trade")}
                /\ row["recommendation"] = Str("take_trade") <=>
                       (IsNum(row["ev"]) /\ ~FlLt(row["ev"].num, Threshold))
                /\ row["ev"] = Num(Threshold) => row["recommendation"] = Str("take_trade")

C4_BoundaryRowReturned ==
    /\ result.present
    /\ \E i \in 1..Len(result.rows) :
          /\ result.rows[i]["ev"] = Num(Threshold)
          /\ result.rows[i]["recommendation"] = Str("take_trade")
    /\ \E i \in 1..Len(result.rows) :
          /\ IsNum(result.rows[i]["ev"])
          /\ FlLt(result.rows[i]["ev"].num, Threshold)
          /\ result.rows[i]["recommendation"] = Str("skip_trade")

\* C8: a returned table has as many rows as the input, and row i carries input row
\* i's eight fields and the p_win, ev and recommendation computed from those eight
\* fields alone, whatever the other rows and columns are.
C8_RowOrderAndIndependence ==
    result.present =>
        /\ Len(result.rows) = Len(csv_rows)
        /\ \A i \in 1..Len(csv_rows) :
              LET in  == csv_rows[i]
                  out == result.rows[i]
                  p   == p_win_cell(in)
                  ev  == ev_cell([col \in Range(ev_cols) |->
                                     IF col = "p_win" THEN p ELSE in[col]])
              IN  /\ \A col \in RequiredSet : out[col] = in[col]
                  /\ out["p_win"] = p
                  /\ out["ev"] = ev
                  /\ out["recommendation"] =
                        Str(IF IsNum(ev) /\ ~FlLt(ev.num, Threshold)
                            THEN "take_trade" ELSE "skip_trade")

C8_TwoRowsReturned ==
    /\ result.present
    /\ Len(result.rows) = 2
    /\ result.rows[1]["buy_ratings"] = I(15)
    /\ result.rows[1]["recommendation"] = Str("take_trade")
    /\ result.rows[2]["buy_ratings"] = I(2)
    /\ result.rows[2]["recommendation"] = Str("skip_trade")

\* C9: a call on a table with every required column and no rows ends without an
\* error and returns a table with no rows whose columns hold p_win, ev and
\* recommendation besides all the input's columns.
C9_EmptyBatchShape ==
    Finished /\ FullHeader /\ Len(csv_rows) = 0 =>
        /\ ~error.raised
        /\ result.present
        /\ Len(result.rows) = 0
        /\ Range(derived_cols) \subseteq Range(result.columns)
        /\ Range(csv_columns) \subseteq Range(result.columns)

C9_EmptyBatchReturned ==
    /\ pc = "returned"
    /\ Len(csv_rows) = 0
    /\ "ticker" \in Range(csv_columns)
    /\ result.present
    /\ result.rows = <<>>

\* C10 as stated: the returned table is the input table with p_win, ev and
\* recommendation appended at the end in this order, every input column at its
\* original position with its values unmodified, whatever its name.
C10_ThreeColumnsAppended ==
    result.present =>
        /\ result.columns = csv_columns \o derived_cols
        /\ Len(result.rows) = Len(csv_rows)
        /\ \A i \in 1..Len(csv_rows) :
              \A col \in Range(csv_columns) : result.rows[i][col] = csv_rows[i][col]

\* A cell of a required column that int() or float() rejects.
BadCell(i, col) == ~coerces(csv_rows[i][col], col)

HasBadCell ==
    /\ FullHeader
    /\ \E i \in 1..Len(csv_rows) : \E col \in RequiredSet : BadCell(i, col)

LibraryPrinted == \E k \in 1..Len(stdout) : stdout[k][1] = "calculate_ev_from_csv"

\* C11: when a cell of a required column of any row does not coerce to its
\* numeric type, the call never returns a table and never writes the output file,
\* whichever row holds the cell and however many rows before it were scored, and
\* it ends with the coercion's ValueError; an output file is written only when
\* every row carries its p_win, ev and recommendation, and it is the returned table.
C11_AllOrNothing ==
    /\ HasBadCell =>
          /\ ~result.present
          /\ ~out_file.present
          /\ ~LibraryPrinted
          /\ pc \notin {"empty", "save", "returned", "exit_0"}
          /\ Finished =>
                /\ error.raised
                /\ error.type = "ValueError"
                /\ error.text = "could not convert cell"
                /\ \E i \in 1..Len(csv_rows) : BadCell(i, error.column)
    /\ out_file.present =>
          /\ output_path
          /\ pc \in {"returned", "exit_0"}
          /\ ~error.raised
          /\ out_file = result
          /\ scored = Len(csv_rows)
          /\ Len(out_file.rows) = Len(csv_rows)
          /\ \A i \in 1..Len(out_file.rows) :
                /\ out_file.rows[i]["p_win"] = p_win_cell(csv_rows[i])
                /\ out_file.rows[i]["ev"] = ev_cell(out_file.rows[i])
                /\ out_file.rows[i]["recommendation"] =
                      recommendation_cell(out_file.rows[i]["ev"])

\* The second row's loss_r is no number: both rows were scored and the first row's
\* ev was computed before the call failed, and the output file was asked for.
C11_LaterRowFailed ==
    /\ pc = "raised"
    /\ FullHeader
    /\ Len(csv_rows) = 2
    /\ \A col \in RequiredSet : ~BadCell(1, col)
    /\ BadCell(2, "loss_r")
    /\ error.column = "loss_r"
    /\ scored = 2
    /\ Len(acc) = 1
    /\ output_path
    /\ ~out_file.present
    /\ ~result.present

\* A row with an empty smart_score field coerces: its p_win and ev are NaN, it is
\* classified skip_trade, and the table is returned and saved.
NaNRowSaved ==
    /\ out_file.present
    /\ \E i \in 1..Len(csv_rows) :
          /\ IsNaN(csv_rows[i]["smart_score"])
          /\ IsNaN(out_file.rows[i]["ev"])
          /\ out_file.rows[i]["recommendation"] = Str("skip_trade")

====
